---- MODULE Spec2Model ----
(***************************************************************************)
(* The AVG aggregate functions of executor/aggfuncs/func_avg.go:           *)
(*   avgOriginal4Decimal, avgPartial4Decimal, avgOriginal4DistinctDecimal, *)
(*   avgOriginal4Float64, avgPartial4Float64, avgOriginal4DistinctFloat64. *)
(* One partial result (accumulator) is driven through AllocPartialResult,  *)
(* ResetPartialResult, UpdatePartialResult and AppendFinalResult2Chunk.    *)
(***************************************************************************)
EXTENDS Integers, Sequences, FiniteSets, TLC

(***************************************************************************)
(* Bounds of the model.                                                    *)
(***************************************************************************)
\* rows fed to one partial result between two resets
MaxRows == 3
\* rows of one UpdatePartialResult call (len(rowsInGroup))
MaxBatch == 2
\* final results appended to the output chunk
MaxChk == 1
\* decimal digits a MyDecimal can hold (scaled down from the library's buffer)
MaxDigits == 6
\* width of the count field (scaled down from int64)
IntBits == 5
\* width of the significand of a float (scaled down from float64's 53)
MantBits == 5
\* groups a multiset of rows is partitioned into for the first stage
MaxGroups == 2
\* the output column of the aggregate (baseAggFunc.ordinal); columns are 0..ordinal+1
ordinal == 1

(***************************************************************************)
(* Arithmetic helpers.                                                     *)
(***************************************************************************)
Abs(x) == IF x < 0 THEN 0 - x ELSE x

Max(a, b) == IF a >= b THEN a ELSE b

RECURSIVE Pow(_, _)
Pow(b, n) == IF n = 0 THEN 1 ELSE b * Pow(b, n - 1)

\* integer quotient truncated toward zero, d # 0
TruncDiv(n, d) ==
    LET q == Abs(n) \div Abs(d)
    IN  IF (n < 0) = (d < 0) THEN q ELSE 0 - q

(***************************************************************************)
(* types.MyDecimal: the value v / 10^f, f fractional digits.               *)
(***************************************************************************)
Dec(v, f) == [v |-> v, f |-> f]

\* the Go zero value MyDecimal{}
ZeroDecimal == Dec(0, 0)

NewDecFromInt(i) == Dec(i, 0)

\* numeric equality of two decimals, whatever their scales
DecEq(a, b) == a.v * Pow(10, b.f) = b.v * Pow(10, a.f)

\* a decimal fits the fixed digit buffer
DecFits(d) == Abs(d.v) < Pow(10, MaxDigits)

\* the increment of fractional digits of a division (types.DivFracIncr)
DivFracIncr == 4

\* types.DecimalAdd(from1, from2, to): exact sum at the larger scale, or an error
\* when the sum does not fit the buffer
DecimalAdd(a, b) ==
    LET f == Max(a.f, b.f)
        r == Dec(a.v * Pow(10, f - a.f) + b.v * Pow(10, f - b.f), f)
    IN  [to |-> r, err |-> ~DecFits(r)]

\* types.DecimalDiv(from1, from2, to, fracIncr): the quotient with fracIncr more
\* fractional digits than the operands, or an error on division by zero or when
\* the quotient does not fit the buffer
DecimalDiv(a, b, fracIncr) ==
    LET f == a.f + b.f + fracIncr
    IN  IF b.v = 0
           \/ Abs(a.v) * Pow(10, 2 * b.f) >= Pow(10, MaxDigits - fracIncr) * Abs(b.v)
        THEN [to |-> ZeroDecimal, err |-> TRUE]
        ELSE [to |-> Dec(TruncDiv(a.v * Pow(10, fracIncr + 2 * b.f), b.v), f),
              err |-> FALSE]

(***************************************************************************)
(* int64: two's complement wrap-around of the count field.                 *)
(***************************************************************************)
MaxInt64 == Pow(2, IntBits - 1) - 1

Int64(x) == ((x + Pow(2, IntBits - 1)) % Pow(2, IntBits)) - Pow(2, IntBits - 1)

(***************************************************************************)
(* float64: the values m * 2^e with |m| < 2^MantBits, e >= 0; every        *)
(* operation rounds its exact result to the nearest such value, ties to    *)
(* the even significand.                                                   *)
(***************************************************************************)
RECURSIVE FloatExp(_, _, _)
FloatExp(n, d, e) ==
    IF n \div (d * Pow(2, e)) < Pow(2, MantBits) THEN e ELSE FloatExp(n, d, e + 1)

\* the float nearest to n / d, n >= 0, d > 0
RoundPos(n, d) ==
    LET e == FloatExp(n, d, 0)
        u == d * Pow(2, e)
        q == n \div u
        r == n % u
        m == IF 2 * r < u THEN q
             ELSE IF 2 * r > u THEN q + 1
             ELSE IF q % 2 = 0 THEN q ELSE q + 1
    IN  m * Pow(2, e)

\* the float nearest to n / d, d # 0
RoundFloat(n, d) ==
    IF (n < 0) = (d < 0) \/ n = 0
    THEN RoundPos(Abs(n), Abs(d))
    ELSE 0 - RoundPos(Abs(n), Abs(d))

\* a + b on float64
FloatAdd(a, b) == RoundFloat(a + b, 1)

\* float64(i)
Float64(i) == RoundFloat(i, 1)

\* a / b on float64, b # 0
FloatDiv(a, b) == RoundFloat(a, b)

(***************************************************************************)
(* The result (value, isNull, err) of evaluating one argument expression   *)
(* against one row (EvalDecimal, EvalReal, EvalInt).                       *)
(***************************************************************************)
Val(x) == [val |-> x, isNull |-> FALSE, err |-> FALSE]

Null(zero) == [val |-> zero, isNull |-> TRUE, err |-> FALSE]

Fail(zero) == [val |-> zero, isNull |-> FALSE, err |-> TRUE]

(***************************************************************************)
(* The six aggregate functions, and the rows they are fed.  A row is the   *)
(* outcome of evaluating e.args on it: arg0 is the value (original phase)  *)
(* or the partial count (merge phase), arg1 the partial sum (merge phase). *)
(***************************************************************************)
DecimalFns == {"avgOriginal4Decimal", "avgPartial4Decimal", "avgOriginal4DistinctDecimal"}

FloatFns == {"avgOriginal4Float64", "avgPartial4Float64", "avgOriginal4DistinctFloat64"}

PartialFns == {"avgPartial4Decimal", "avgPartial4Float64"}

DistinctFns == {"avgOriginal4DistinctDecimal", "avgOriginal4DistinctFloat64"}

OriginalFns == (DecimalFns \cup FloatFns) \ PartialFns

\* the largest decimal the buffer holds
DecBig == Dec(Pow(10, MaxDigits) - 1, 0)

\* the smallest float whose successor integer is not a float
FloatBig == Pow(2, MantBits)

DecimalRows ==
    {[arg0 |-> Val(d)] : d \in {Dec(1, 0), Dec(10, 1), Dec(2, 0), DecBig, Dec(0 - DecBig.v, 0)}}
    \cup {[arg0 |-> Null(ZeroDecimal)], [arg0 |-> Fail(ZeroDecimal)]}

FloatRows ==
    {[arg0 |-> Val(x)] : x \in {1, 2, FloatBig}} \cup {[arg0 |-> Null(0)], [arg0 |-> Fail(0)]}

PartialRow(s, c) == [arg0 |-> c, arg1 |-> s]

PartialDecimalRows ==
    {PartialRow(Val(Dec(10, 0)), Val(2)), PartialRow(Val(Dec(20, 0)), Val(3)),
     PartialRow(Val(ZeroDecimal), Val(0)), PartialRow(Val(DecBig), Val(1)),
     PartialRow(Val(Dec(1, 0)), Val(MaxInt64)),
     PartialRow(Null(ZeroDecimal), Val(2)), PartialRow(Val(Dec(10, 0)), Null(0)),
     PartialRow(Fail(ZeroDecimal), Val(2)), PartialRow(Val(Dec(10, 0)), Fail(0)),
     PartialRow(Null(ZeroDecimal), Fail(0))}

PartialFloatRows ==
    {PartialRow(Val(10), Val(2)), PartialRow(Val(20), Val(3)),
     PartialRow(Val(0), Val(0)), PartialRow(Val(FloatBig), Val(1)),
     PartialRow(Val(1), Val(MaxInt64)),
     PartialRow(Null(0), Val(2)), PartialRow(Val(10), Null(0)),
     PartialRow(Fail(0), Val(2)), PartialRow(Val(10), Fail(0)),
     PartialRow(Null(0), Fail(0))}

RowsOf(f) ==
    CASE f \in {"avgOriginal4Decimal", "avgOriginal4DistinctDecimal"} -> DecimalRows
      [] f \in {"avgOriginal4Float64", "avgOriginal4DistinctFloat64"} -> FloatRows
      [] f = "avgPartial4Decimal" -> PartialDecimalRows
      [] f = "avgPartial4Float64" -> PartialFloatRows

\* the batches rowsInGroup of at most n rows
Batches(S, n) == UNION {[1..m -> S] : m \in 0..n}

(***************************************************************************)
(* decimalSet and float64Set, the sets of the distinct variants.           *)
(***************************************************************************)
newDecimalSet == {}

decimalSet_exist(s, val) == \E m \in s : DecEq(m, val)

decimalSet_insert(s, val) == s \cup {val}

newFloat64Set == {}

float64Set_exist(s, val) == val \in s

float64Set_insert(s, val) == s \cup {val}

(***************************************************************************)
(* AllocPartialResult and ResetPartialResult.                              *)
(***************************************************************************)
baseAvgDecimal_AllocPartialResult == [sum |-> ZeroDecimal, count |-> 0]

baseAvgDecimal_ResetPartialResult(p) == [p EXCEPT !.sum = NewDecFromInt(0), !.count = 0]

avgOriginal4DistinctDecimal_AllocPartialResult ==
    [sum |-> ZeroDecimal, count |-> 0, valSet |-> newDecimalSet]

\* a faulty variant: the set is kept across the reset
avgOriginal4DistinctDecimal_ResetPartialResult_KeepsSet(p) ==
    [p EXCEPT !.sum = NewDecFromInt(0), !.count = 0]

avgOriginal4DistinctDecimal_ResetPartialResult(p) ==
    [p EXCEPT !.sum = NewDecFromInt(0), !.count = 0, !.valSet = newDecimalSet]

baseAvgFloat64_AllocPartialResult == [sum |-> 0, count |-> 0]

baseAvgFloat64_ResetPartialResult(p) == [p EXCEPT !.sum = 0, !.count = 0]

avgOriginal4DistinctFloat64_AllocPartialResult ==
    [sum |-> 0, count |-> 0, valSet |-> newFloat64Set]

avgOriginal4DistinctFloat64_ResetPartialResult(p) ==
    [p EXCEPT !.sum = 0, !.count = 0, !.valSet = newFloat64Set]

AllocPartialResult(f) ==
    CASE f \in {"avgOriginal4Decimal", "avgPartial4Decimal"} -> baseAvgDecimal_AllocPartialResult
      [] f = "avgOriginal4DistinctDecimal" -> avgOriginal4DistinctDecimal_AllocPartialResult
      [] f \in {"avgOriginal4Float64", "avgPartial4Float64"} -> baseAvgFloat64_AllocPartialResult
      [] f = "avgOriginal4DistinctFloat64" -> avgOriginal4DistinctFloat64_AllocPartialResult

ResetPartialResult(f, p) ==
    CASE f \in {"avgOriginal4Decimal", "avgPartial4Decimal"} -> baseAvgDecimal_ResetPartialResult(p)
      [] f = "avgOriginal4DistinctDecimal" -> avgOriginal4DistinctDecimal_ResetPartialResult(p)
      [] f \in {"avgOriginal4Float64", "avgPartial4Float64"} -> baseAvgFloat64_ResetPartialResult(p)
      [] f = "avgOriginal4DistinctFloat64" -> avgOriginal4DistinctFloat64_ResetPartialResult(p)

(***************************************************************************)
(* The body of the loop of each UpdatePartialResult: one row folded into   *)
(* the partial result p, or err and p as the return statement leaves it.   *)
(***************************************************************************)
\* a faulty variant: the row is counted before DecimalAdd is checked
avgOriginal4Decimal_Row_CountsFirst(p, row) ==
    LET input == row.arg0
        add == DecimalAdd(p.sum, input.val)
    IN  IF input.err THEN [p |-> p, err |-> TRUE]
        ELSE IF input.isNull THEN [p |-> p, err |-> FALSE]
        ELSE IF add.err THEN [p |-> [p EXCEPT !.count = Int64(@ + 1)], err |-> TRUE]
        ELSE [p |-> [p EXCEPT !.sum = add.to, !.count = Int64(@ + 1)], err |-> FALSE]

\* a faulty variant: newSum is not copied to p.sum
avgOriginal4Decimal_Row_DropsSum(p, row) ==
    LET input == row.arg0
        add == DecimalAdd(p.sum, input.val)
    IN  IF input.err THEN [p |-> p, err |-> TRUE]
        ELSE IF input.isNull THEN [p |-> p, err |-> FALSE]
        ELSE IF add.err THEN [p |-> p, err |-> TRUE]
        ELSE [p |-> [p EXCEPT !.count = Int64(@ + 1)], err |-> FALSE]

avgOriginal4Decimal_Row(p, row) ==
    LET input == row.arg0
        add == DecimalAdd(p.sum, input.val)
    IN  IF input.err THEN [p |-> p, err |-> TRUE]
        ELSE IF input.isNull THEN [p |-> p, err |-> FALSE]
        ELSE IF add.err THEN [p |-> p, err |-> TRUE]
        ELSE [p |-> [p EXCEPT !.sum = add.to, !.count = Int64(@ + 1)], err |-> FALSE]

\* a faulty variant: the partial sum is added before the partial count is found null
avgPartial4Decimal_Row_AddsBeforeCount(p, row) ==
    LET inputSum == row.arg1
        inputCount == row.arg0
        add == DecimalAdd(p.sum, inputSum.val)
    IN  IF inputSum.err THEN [p |-> p, err |-> TRUE]
        ELSE IF inputSum.isNull THEN [p |-> p, err |-> FALSE]
        ELSE IF add.err THEN [p |-> p, err |-> TRUE]
        ELSE IF inputCount.err THEN [p |-> [p EXCEPT !.sum = add.to], err |-> TRUE]
        ELSE IF inputCount.isNull THEN [p |-> [p EXCEPT !.sum = add.to], err |-> FALSE]
        ELSE [p |-> [p EXCEPT !.sum = add.to, !.count = Int64(@ + inputCount.val)],
              err |-> FALSE]

\* a faulty variant: the merge phase counts the rows, not the partial counts
avgPartial4Decimal_Row_CountsRows(p, row) ==
    LET inputSum == row.arg1
        inputCount == row.arg0
        add == DecimalAdd(p.sum, inputSum.val)
    IN  IF inputSum.err THEN [p |-> p, err |-> TRUE]
        ELSE IF inputSum.isNull THEN [p |-> p, err |-> FALSE]
        ELSE IF inputCount.err THEN [p |-> p, err |-> TRUE]
        ELSE IF inputCount.isNull THEN [p |-> p, err |-> FALSE]
        ELSE IF add.err THEN [p |-> p, err |-> TRUE]
        ELSE [p |-> [p EXCEPT !.sum = add.to, !.count = Int64(@ + 1)], err |-> FALSE]

avgPartial4Decimal_Row(p, row) ==
    LET inputSum == row.arg1
        inputCount == row.arg0
        add == DecimalAdd(p.sum, inputSum.val)
    IN  IF inputSum.err THEN [p |-> p, err |-> TRUE]
        ELSE IF inputSum.isNull THEN [p |-> p, err |-> FALSE]
        ELSE IF inputCount.err THEN [p |-> p, err |-> TRUE]
        ELSE IF inputCount.isNull THEN [p |-> p, err |-> FALSE]
        ELSE IF add.err THEN [p |-> p, err |-> TRUE]
        ELSE [p |-> [p EXCEPT !.sum = add.to, !.count = Int64(@ + inputCount.val)],
              err |-> FALSE]

\* a faulty variant: the value is inserted into the set before DecimalAdd is checked
avgOriginal4DistinctDecimal_Row_InsertsFirst(p, row) ==
    LET input == row.arg0
        add == DecimalAdd(p.sum, input.val)
        q == [p EXCEPT !.valSet = decimalSet_insert(@, input.val)]
    IN  IF input.err THEN [p |-> p, err |-> TRUE]
        ELSE IF input.isNull \/ decimalSet_exist(p.valSet, input.val)
             THEN [p |-> p, err |-> FALSE]
        ELSE IF add.err THEN [p |-> q, err |-> TRUE]
        ELSE [p |-> [q EXCEPT !.sum = add.to, !.count = Int64(@ + 1)], err |-> FALSE]

\* a faulty variant: the value is not inserted into the set
avgOriginal4DistinctDecimal_Row_NoInsert(p, row) ==
    LET input == row.arg0
        add == DecimalAdd(p.sum, input.val)
    IN  IF input.err THEN [p |-> p, err |-> TRUE]
        ELSE IF input.isNull \/ decimalSet_exist(p.valSet, input.val)
             THEN [p |-> p, err |-> FALSE]
        ELSE IF add.err THEN [p |-> p, err |-> TRUE]
        ELSE [p |-> [p EXCEPT !.sum = add.to, !.count = Int64(@ + 1)], err |-> FALSE]

avgOriginal4DistinctDecimal_Row(p, row) ==
    LET input == row.arg0
        add == DecimalAdd(p.sum, input.val)
    IN  IF input.err THEN [p |-> p, err |-> TRUE]
        ELSE IF input.isNull \/ decimalSet_exist(p.valSet, input.val)
             THEN [p |-> p, err |-> FALSE]
        ELSE IF add.err THEN [p |-> p, err |-> TRUE]
        ELSE [p |-> [p EXCEPT !.sum = add.to, !.count = Int64(@ + 1),
                              !.valSet = decimalSet_insert(@, input.val)],
              err |-> FALSE]

\* a faulty variant: a null row is counted
avgOriginal4Float64_Row_CountsNull(p, row) ==
    LET input == row.arg0
    IN  IF input.err THEN [p |-> p, err |-> TRUE]
        ELSE IF input.isNull THEN [p |-> [p EXCEPT !.count = Int64(@ + 1)], err |-> FALSE]
        ELSE [p |-> [p EXCEPT !.sum = FloatAdd(@, input.val), !.count = Int64(@ + 1)],
              err |-> FALSE]

avgOriginal4Float64_Row(p, row) ==
    LET input == row.arg0
    IN  IF input.err THEN [p |-> p, err |-> TRUE]
        ELSE IF input.isNull THEN [p |-> p, err |-> FALSE]
        ELSE [p |-> [p EXCEPT !.sum = FloatAdd(@, input.val), !.count = Int64(@ + 1)],
              err |-> FALSE]

\* a faulty variant: an error of the partial count is taken for a null
avgPartial4Float64_Row_SwallowsError(p, row) ==
    LET inputSum == row.arg1
        inputCount == row.arg0
    IN  IF inputSum.err THEN [p |-> p, err |-> TRUE]
        ELSE IF inputSum.isNull THEN [p |-> p, err |-> FALSE]
        ELSE IF inputCount.err \/ inputCount.isNull THEN [p |-> p, err |-> FALSE]
        ELSE [p |-> [p EXCEPT !.sum = FloatAdd(@, inputSum.val),
                              !.count = Int64(@ + inputCount.val)],
              err |-> FALSE]

\* a faulty variant: the merge phase counts the rows, not the partial counts
avgPartial4Float64_Row_CountsRows(p, row) ==
    LET inputSum == row.arg1
        inputCount == row.arg0
    IN  IF inputSum.err THEN [p |-> p, err |-> TRUE]
        ELSE IF inputSum.isNull THEN [p |-> p, err |-> FALSE]
        ELSE IF inputCount.err THEN [p |-> p, err |-> TRUE]
        ELSE IF inputCount.isNull THEN [p |-> p, err |-> FALSE]
        ELSE [p |-> [p EXCEPT !.sum = FloatAdd(@, inputSum.val), !.count = Int64(@ + 1)],
              err |-> FALSE]

avgPartial4Float64_Row(p, row) ==
    LET inputSum == row.arg1
        inputCount == row.arg0
    IN  IF inputSum.err THEN [p |-> p, err |-> TRUE]
        ELSE IF inputSum.isNull THEN [p |-> p, err |-> FALSE]
        ELSE IF inputCount.err THEN [p |-> p, err |-> TRUE]
        ELSE IF inputCount.isNull THEN [p |-> p, err |-> FALSE]
        ELSE [p |-> [p EXCEPT !.sum = FloatAdd(@, inputSum.val),
                              !.count = Int64(@ + inputCount.val)],
              err |-> FALSE]

avgOriginal4DistinctFloat64_Row(p, row) ==
    LET input == row.arg0
    IN  IF input.err THEN [p |-> p, err |-> TRUE]
        ELSE IF input.isNull \/ float64Set_exist(p.valSet, input.val)
             THEN [p |-> p, err |-> FALSE]
        ELSE [p |-> [p EXCEPT !.sum = FloatAdd(@, input.val), !.count = Int64(@ + 1),
                              !.valSet = float64Set_insert(@, input.val)],
              err |-> FALSE]

RowStep(f, p, row) ==
    CASE f = "avgOriginal4Decimal" -> avgOriginal4Decimal_Row(p, row)
      [] f = "avgPartial4Decimal" -> avgPartial4Decimal_Row(p, row)
      [] f = "avgOriginal4DistinctDecimal" -> avgOriginal4DistinctDecimal_Row(p, row)
      [] f = "avgOriginal4Float64" -> avgOriginal4Float64_Row(p, row)
      [] f = "avgPartial4Float64" -> avgPartial4Float64_Row(p, row)
      [] f = "avgOriginal4DistinctFloat64" -> avgOriginal4DistinctFloat64_Row(p, row)

\* for _, row := range rowsInGroup, from row i on: the partial result at the
\* return, whether an error is returned, and the number k of rows folded before it
RECURSIVE ForRows(_, _, _, _)
ForRows(f, p, rows, i) ==
    IF i > Len(rows) THEN [p |-> p, err |-> FALSE, k |-> Len(rows)]
    ELSE LET r == RowStep(f, p, rows[i])
         IN  IF r.err THEN [p |-> r.p, err |-> TRUE, k |-> i - 1]
             ELSE ForRows(f, r.p, rows, i + 1)

\* a faulty variant: a distinct function looks for the values of the call only, in a
\* set made empty at its start and added to the set of the partial result at its end
UpdatePartialResult_SetPerCall(f, p, rows) ==
    IF f \in DistinctFns
    THEN LET r == ForRows(f, [p EXCEPT !.valSet = {}], rows, 1)
         IN  [r EXCEPT !.p.valSet = @ \cup p.valSet]
    ELSE ForRows(f, p, rows, 1)

UpdatePartialResult(f, p, rows) == ForRows(f, p, rows, 1)

(***************************************************************************)
(* chunk.Chunk: one sequence of entries per column.                        *)
(***************************************************************************)
Columns == 0..(ordinal + 1)

EmptyChunk == [c \in Columns |-> <<>>]

AppendNull(c, col) == [c EXCEPT ![col] = Append(@, [isNull |-> TRUE, val |-> 0])]

AppendMyDecimal(c, col, d) == [c EXCEPT ![col] = Append(@, [isNull |-> FALSE, val |-> d])]

AppendFloat64(c, col, x) == [c EXCEPT ![col] = Append(@, [isNull |-> FALSE, val |-> x])]

(***************************************************************************)
(* AppendFinalResult2Chunk: the chunk and the partial result after the     *)
(* call, and the error.                                                    *)
(***************************************************************************)
\* a faulty variant: the average of no rows is written as zero
baseAvgDecimal_AppendFinalResult2Chunk_ZeroForEmpty(p, c) ==
    LET decimalCount == NewDecFromInt(p.count)
        div == DecimalDiv(p.sum, decimalCount, DivFracIncr)
    IN  IF p.count = 0 THEN [chk |-> AppendMyDecimal(c, ordinal, p.sum), err |-> FALSE, p |-> p]
        ELSE IF div.err THEN [chk |-> c, err |-> TRUE, p |-> p]
        ELSE [chk |-> AppendMyDecimal(c, ordinal, div.to), err |-> FALSE, p |-> p]

baseAvgDecimal_AppendFinalResult2Chunk(p, c) ==
    LET decimalCount == NewDecFromInt(p.count)
        div == DecimalDiv(p.sum, decimalCount, DivFracIncr)
    IN  IF p.count = 0 THEN [chk |-> AppendNull(c, ordinal), err |-> FALSE, p |-> p]
        ELSE IF div.err THEN [chk |-> c, err |-> TRUE, p |-> p]
        ELSE [chk |-> AppendMyDecimal(c, ordinal, div.to), err |-> FALSE, p |-> p]

\* a faulty variant: the null is written for a sum of zero, not for a count of zero
avgOriginal4DistinctDecimal_AppendFinalResult2Chunk_NullForZeroSum(p, c) ==
    LET decimalCount == NewDecFromInt(p.count)
        div == DecimalDiv(p.sum, decimalCount, DivFracIncr)
    IN  IF p.sum.v = 0 THEN [chk |-> AppendNull(c, ordinal), err |-> FALSE, p |-> p]
        ELSE IF div.err THEN [chk |-> c, err |-> TRUE, p |-> p]
        ELSE [chk |-> AppendMyDecimal(c, ordinal, div.to), err |-> FALSE, p |-> p]

avgOriginal4DistinctDecimal_AppendFinalResult2Chunk(p, c) ==
    LET decimalCount == NewDecFromInt(p.count)
        div == DecimalDiv(p.sum, decimalCount, DivFracIncr)
    IN  IF p.count = 0 THEN [chk |-> AppendNull(c, ordinal), err |-> FALSE, p |-> p]
        ELSE IF div.err THEN [chk |-> c, err |-> TRUE, p |-> p]
        ELSE [chk |-> AppendMyDecimal(c, ordinal, div.to), err |-> FALSE, p |-> p]

\* a faulty variant: the partial result is cleared once its average is written
baseAvgFloat64_AppendFinalResult2Chunk_Consumes(p, c) ==
    IF p.count = 0 THEN [chk |-> AppendNull(c, ordinal), err |-> FALSE, p |-> p]
    ELSE [chk |-> AppendFloat64(c, ordinal, FloatDiv(p.sum, Float64(p.count))),
          err |-> FALSE, p |-> [p EXCEPT !.sum = 0, !.count = 0]]

baseAvgFloat64_AppendFinalResult2Chunk(p, c) ==
    IF p.count = 0 THEN [chk |-> AppendNull(c, ordinal), err |-> FALSE, p |-> p]
    ELSE [chk |-> AppendFloat64(c, ordinal, FloatDiv(p.sum, Float64(p.count))),
          err |-> FALSE, p |-> p]

avgOriginal4DistinctFloat64_AppendFinalResult2Chunk(p, c) ==
    IF p.count = 0 THEN [chk |-> AppendNull(c, ordinal), err |-> FALSE, p |-> p]
    ELSE [chk |-> AppendFloat64(c, ordinal, FloatDiv(p.sum, Float64(p.count))),
          err |-> FALSE, p |-> p]

AppendFinalResult2Chunk(f, p, c) ==
    CASE f \in {"avgOriginal4Decimal", "avgPartial4Decimal"} ->
            baseAvgDecimal_AppendFinalResult2Chunk(p, c)
      [] f = "avgOriginal4DistinctDecimal" ->
            avgOriginal4DistinctDecimal_AppendFinalResult2Chunk(p, c)
      [] f \in {"avgOriginal4Float64", "avgPartial4Float64"} ->
            baseAvgFloat64_AppendFinalResult2Chunk(p, c)
      [] f = "avgOriginal4DistinctFloat64" ->
            avgOriginal4DistinctFloat64_AppendFinalResult2Chunk(p, c)

(***************************************************************************)
(* The state: one aggregate function fn and one partial result pr of it,   *)
(* the output chunk chk, and the record of the calls: fed, the rows folded *)
(* without error since the partial result was allocated or reset, and      *)
(* last, the last call with its arguments, its result and the partial      *)
(* result pre it was made on.                                              *)
(*                                                                         *)
(* Several workers driving the one function fn, each on a partial result   *)
(* of its own: acc, the partial result of each worker, the set of a        *)
(* distinct function held by reference; sets, the sets allocated so far;   *)
(* run, each worker's position in the UpdatePartialResult call it is in;   *)
(* calls, the batches each worker has passed so far.                       *)
(***************************************************************************)
VARIABLES fn, pr, chk, fed, last, acc, sets, run, calls

vars == <<fn, pr, chk, fed, last, acc, sets, run, calls>>

\* the variables of the workers
wvars == <<acc, sets, run, calls>>

\* no worker is there: one partial result is driven alone
NoWorkers == acc = <<>> /\ sets = <<>> /\ run = <<>> /\ calls = <<>>

Call(op, rows, k, err, pre) == [op |-> op, rows |-> rows, k |-> k, err |-> err, pre |-> pre]

Init ==
    /\ fn \in DecimalFns \cup FloatFns
    /\ pr = AllocPartialResult(fn)
    /\ chk = EmptyChunk
    /\ fed = <<>>
    /\ last = Call("alloc", <<>>, 0, FALSE, AllocPartialResult(fn))
    /\ NoWorkers

\* no final result has been appended yet: the group is still open (the partial
\* result is read by AppendFinalResult2Chunk when its group is complete)
Open == chk = EmptyChunk

Reset(fns) ==
    /\ fn \in fns
    /\ Open
    /\ pr' = ResetPartialResult(fn, pr)
    /\ fed' = <<>>
    /\ last' = Call("reset", <<>>, 0, FALSE, pr)
    /\ UNCHANGED <<fn, chk, wvars>>

\* an UpdatePartialResult call returned an error: the aggregation of the group has
\* failed, and the caller feeds it no more rows
Failed == last.op = "update" /\ last.err

Min(a, b) == IF a <= b THEN a ELSE b

Update(f) ==
    /\ fn = f
    /\ Open
    /\ ~Failed
    /\ \E rows \in Batches(RowsOf(f), Min(MaxBatch, MaxRows - Len(fed))) :
          /\ LET r == UpdatePartialResult(f, pr, rows)
             IN  /\ pr' = r.p
                 /\ fed' = fed \o SubSeq(rows, 1, r.k)
                 /\ last' = Call("update", rows, r.k, r.err, pr)
    /\ UNCHANGED <<fn, chk, wvars>>

AppendFinal(fns) ==
    /\ fn \in fns
    /\ Len(chk[ordinal]) < MaxChk
    /\ LET r == AppendFinalResult2Chunk(fn, pr, chk)
       IN  /\ chk' = r.chk
           /\ pr' = r.p
           /\ last' = Call("append", <<>>, 0, r.err, pr)
    /\ UNCHANGED <<fn, fed, wvars>>

baseAvgDecimal_Reset == Reset({"avgOriginal4Decimal", "avgPartial4Decimal"})

avgOriginal4DistinctDecimal_Reset == Reset({"avgOriginal4DistinctDecimal"})

baseAvgFloat64_Reset == Reset({"avgOriginal4Float64", "avgPartial4Float64"})

avgOriginal4DistinctFloat64_Reset == Reset({"avgOriginal4DistinctFloat64"})

avgOriginal4Decimal_Update == Update("avgOriginal4Decimal")

avgPartial4Decimal_Update == Update("avgPartial4Decimal")

avgOriginal4DistinctDecimal_Update == Update("avgOriginal4DistinctDecimal")

avgOriginal4Float64_Update == Update("avgOriginal4Float64")

avgPartial4Float64_Update == Update("avgPartial4Float64")

avgOriginal4DistinctFloat64_Update == Update("avgOriginal4DistinctFloat64")

baseAvgDecimal_AppendFinal == AppendFinal({"avgOriginal4Decimal", "avgPartial4Decimal"})

avgOriginal4DistinctDecimal_AppendFinal == AppendFinal({"avgOriginal4DistinctDecimal"})

baseAvgFloat64_AppendFinal == AppendFinal({"avgOriginal4Float64", "avgPartial4Float64"})

avgOriginal4DistinctFloat64_AppendFinal == AppendFinal({"avgOriginal4DistinctFloat64"})

Next ==
    \/ baseAvgDecimal_Reset
    \/ avgOriginal4DistinctDecimal_Reset
    \/ baseAvgFloat64_Reset
    \/ avgOriginal4DistinctFloat64_Reset
    \/ avgOriginal4Decimal_Update
    \/ avgPartial4Decimal_Update
    \/ avgOriginal4DistinctDecimal_Update
    \/ avgOriginal4Float64_Update
    \/ avgPartial4Float64_Update
    \/ avgOriginal4DistinctFloat64_Update
    \/ baseAvgDecimal_AppendFinal
    \/ avgOriginal4DistinctDecimal_AppendFinal
    \/ baseAvgFloat64_AppendFinal
    \/ avgOriginal4DistinctFloat64_AppendFinal

Spec == Init /\ [][Next]_vars

(***************************************************************************)
(* What the rows fed so far should amount to, stated from the rows alone.  *)
(***************************************************************************)
\* the value a row contributes to sum: the input, or the partial sum
ValOf(f, row) == IF f \in PartialFns THEN row.arg1.val ELSE row.arg0.val

\* the row is skipped as null: the value is null, or the partial sum or count is
IsNullRow(f, row) ==
    IF f \in PartialFns
    THEN row.arg1.isNull \/ (~row.arg1.err /\ row.arg0.isNull)
    ELSE row.arg0.isNull

\* equality of two values of the domain of f
SameValue(f, a, b) == IF f \in DecimalFns THEN DecEq(a, b) ELSE a = b

\* the rows of s that contribute: not null and, for a distinct function, not
\* equal to the value of an earlier row
Contributing(f, s) ==
    {i \in DOMAIN s :
        /\ ~IsNullRow(f, s[i])
        /\ f \in DistinctFns =>
              \A j \in 1..(i - 1) :
                  IsNullRow(f, s[j]) \/ ~SameValue(f, ValOf(f, s[j]), ValOf(f, s[i]))}

\* the largest scale among the decimals of the rows I of s (0 for none)
ScaleOf(f, s, I) ==
    LET fs == {ValOf(f, s[i]).f : i \in I} \cup {0}
    IN  CHOOSE m \in fs : \A x \in fs : x <= m

\* the exact sum, in units of 10^-F, of the decimals of the rows I among s[1..n]
RECURSIVE ExactSum(_, _, _, _, _)
ExactSum(f, s, I, F, n) ==
    IF n = 0 THEN 0
    ELSE ExactSum(f, s, I, F, n - 1)
         + (IF n \in I THEN ValOf(f, s[n]).v * Pow(10, F - ValOf(f, s[n]).f) ELSE 0)

\* the exact sum of the rows I of s as a decimal
ExactDecimal(f, s, I) ==
    LET F == ScaleOf(f, s, I) IN Dec(ExactSum(f, s, I, F, Len(s)), F)

\* the float64 sum of the rows I among s[1..n], added from left to right
RECURSIVE FloatSum(_, _, _, _)
FloatSum(f, s, I, n) ==
    IF n = 0 THEN 0
    ELSE IF n \in I THEN FloatAdd(FloatSum(f, s, I, n - 1), ValOf(f, s[n]))
    ELSE FloatSum(f, s, I, n - 1)

\* the sum of the rows I of s in the domain of f
DomainSum(f, s, I) ==
    IF f \in DecimalFns THEN ExactDecimal(f, s, I) ELSE FloatSum(f, s, I, Len(s))

\* the last entry of the output column
LastEntry == chk[ordinal][Len(chk[ordinal])]

\* nothing was written to a column other than the aggregate's
OnlyOrdinal == \A c \in Columns \ {ordinal} : chk[c] = <<>>

(***************************************************************************)
(* C2: when every row fed since the partial result was allocated or reset  *)
(* was skipped as null (or no row was fed), AppendFinalResult2Chunk        *)
(* returns no error and appends a null, not a zero, at the ordinal.        *)
(***************************************************************************)
C2_NullOnNoInput ==
    (last.op = "append" /\ \A i \in DOMAIN fed : IsNullRow(fn, fed[i])) =>
        /\ ~last.err
        /\ Len(chk[ordinal]) >= 1
        /\ \A i \in DOMAIN chk[ordinal] : chk[ordinal][i].isNull
        /\ OnlyOrdinal

C2_Witness ==
    /\ last.op = "append"
    /\ Len(fed) >= 2
    /\ \A i \in DOMAIN fed : IsNullRow(fn, fed[i])
    /\ fn \in PartialFns
    /\ LastEntry.isNull

(***************************************************************************)
(* C5: in every state of an original-phase partial result, count is the    *)
(* number of rows that contributed (not null and, for a distinct function, *)
(* not seen before) and sum is the sum of the values of exactly those rows.*)
(***************************************************************************)
C5_CountAndSumTogether ==
    fn \in OriginalFns =>
        LET I == Contributing(fn, fed)
        IN  /\ pr.count = Cardinality(I)
            /\ pr.sum = DomainSum(fn, fed, I)

C5_Witness ==
    /\ fn \in OriginalFns
    /\ Len(fed) = 3
    /\ Cardinality(Contributing(fn, fed)) = 2
    /\ pr.count = 2

(***************************************************************************)
(* C3: for the distinct functions, count is the number of distinct         *)
(* non-null values fed (equal decimals of different scales are one value)  *)
(* and sum is the sum of those values, each taken once; a call whose rows  *)
(* are all null or already in the set changes nothing.                     *)
(***************************************************************************)
RECURSIVE SetSum(_)
SetSum(S) == IF S = {} THEN 0 ELSE LET x == CHOOSE y \in S : TRUE IN x + SetSum(S \ {x})

C3_DistinctOnce ==
    fn \in DistinctFns =>
        LET NN == {i \in DOMAIN fed : ~IsNullRow(fn, fed[i])}
            F == ScaleOf(fn, fed, NN)
            values == IF fn \in DecimalFns
                      THEN {fed[i].arg0.val.v * Pow(10, F - fed[i].arg0.val.f) : i \in NN}
                      ELSE {fed[i].arg0.val : i \in NN}
        IN  /\ pr.count = Cardinality(values)
            /\ fn \in DecimalFns => DecEq(pr.sum, Dec(SetSum(values), F))
            /\ fn \in FloatFns => pr.sum = FloatSum(fn, fed, Contributing(fn, fed), Len(fed))
            /\ Cardinality(pr.valSet) = Cardinality(values)
            /\ (/\ last.op = "update"
                /\ \A i \in DOMAIN last.rows :
                      /\ ~last.rows[i].arg0.err
                      /\ \/ last.rows[i].arg0.isNull
                         \/ \E m \in last.pre.valSet :
                               SameValue(fn, m, last.rows[i].arg0.val))
               => (pr = last.pre /\ ~last.err)

C3_Witness ==
    /\ fn = "avgOriginal4DistinctDecimal"
    /\ Len(fed) = 3
    /\ \A i \in DOMAIN fed : ~IsNullRow(fn, fed[i])
    /\ pr.count = 2
    /\ last.op = "update"
    /\ Len(last.rows) = 1
    /\ last.rows[1].arg0.val.f # fed[1].arg0.val.f
    /\ pr = last.pre

(***************************************************************************)
(* C7: when UpdatePartialResult returns an error at a row, the partial     *)
(* result holds what the rows before it in the batch added to the state    *)
(* the call started from, and nothing of the failing row or the rows       *)
(* after it: not sum, not count, not the set of a distinct function.       *)
(***************************************************************************)
C7_NoRollbackNoPartialRow ==
    (last.op = "update" /\ last.err) =>
        LET done == UpdatePartialResult(fn, last.pre, SubSeq(last.rows, 1, last.k))
        IN  /\ last.k < Len(last.rows)
            /\ ~done.err
            /\ pr = done.p
            /\ RowStep(fn, pr, last.rows[last.k + 1]).err
            /\ RowStep(fn, pr, last.rows[last.k + 1]).p = pr

C7_Witness ==
    /\ fn = "avgOriginal4DistinctDecimal"
    /\ last.op = "update"
    /\ last.err
    /\ last.k = 1
    /\ ~last.rows[2].arg0.err
    /\ pr.count = last.pre.count + 1
    /\ Cardinality(pr.valSet) = 1

(***************************************************************************)
(* C8: when the evaluation of an argument of a row fails (the value; in    *)
(* the merge phase the partial sum, or the partial count, which is         *)
(* evaluated for the rows whose partial sum is not null), the call returns *)
(* an error, at the first such row when the call gets that far, and no     *)
(* later row is folded.                                                    *)
(***************************************************************************)
EvalFails(f, row) ==
    IF f \in PartialFns
    THEN row.arg1.err \/ (~row.arg1.isNull /\ row.arg0.err)
    ELSE row.arg0.err

C9_Kept(row) == ~IsNullRow(fn, row)

C9_NullPairSkipped ==
    (fn \in PartialFns /\ last.op = "update") =>
        LET kept == SelectSeq(last.rows, C9_Kept)
            r == UpdatePartialResult(fn, last.pre, kept)
        IN  /\ pr = r.p
            /\ last.err = r.err
            /\ kept = <<>> => (pr = last.pre /\ ~last.err)

C9_Witness ==
    /\ fn \in PartialFns
    /\ last.op = "update"
    /\ ~last.err
    /\ Len(last.rows) = 2
    /\ last.rows[1].arg0.isNull
    /\ ~last.rows[1].arg1.isNull
    /\ pr.count = last.pre.count + 2
    /\ pr.sum # last.pre.sum

(***************************************************************************)
(* C10: ResetPartialResult leaves the partial result as AllocPartialResult *)
(* makes it, whatever calls (failed ones too) went before: the state is    *)
(* always the one a fresh partial result gets from the rows fed since the  *)
(* reset, the final result likewise, and a value of the set of a distinct  *)
(* function before the reset is counted again after it.                    *)
(***************************************************************************)
C10_ResetIsFresh ==
    LET fresh == UpdatePartialResult(fn, AllocPartialResult(fn), fed)
        final == AppendFinalResult2Chunk(fn, fresh.p, EmptyChunk)
    IN  /\ ~fresh.err
        /\ pr = fresh.p
        /\ last.op = "reset" =>
              /\ pr = AllocPartialResult(fn)
              /\ fn \in DistinctFns =>
                    \A v \in last.pre.valSet :
                        UpdatePartialResult(fn, pr, <<[arg0 |-> Val(v)]>>).p.count = 1
        /\ last.op = "append" =>
              /\ last.err = final.err
              /\ ~final.err => LastEntry = final.chk[ordinal][1]

C10_Witness ==
    /\ fn \in DistinctFns
    /\ last.op = "reset"
    /\ last.pre.count = 2
    /\ Cardinality(last.pre.valSet) = 2
    /\ pr.count = 0
    /\ pr.valSet = {}

(***************************************************************************)
(* Orders and partitions of a sequence of rows.                            *)
(***************************************************************************)
\* the permutations of 1..n, for every n up to MaxRows
PermTable ==
    [n \in 0..MaxRows |-> {f \in [1..n -> 1..n] : \A i, j \in 1..n : f[i] = f[j] => i = j}]

Perms(n) == PermTable[n]

\* the rows of s in the order f
Permuted(s, f) == [i \in 1..Len(s) |-> s[f[i]]]

\* every row of s carries values: none is null, none fails to evaluate
AllValues(f, s) == \A i \in DOMAIN s : ~IsNullRow(f, s[i]) /\ ~EvalFails(f, s[i])

(***************************************************************************)
(* C4, as claimed: any sequence of non-null decimals fed to a fresh        *)
(* avgOriginal4Decimal, in any order, ends with the exact sum and the      *)
(* number of the inputs.                                                   *)
(***************************************************************************)
C4_AnySequenceAnyOrder ==
    (/\ fn = "avgOriginal4Decimal"
     /\ last.op = "update"
     /\ last.pre = AllocPartialResult(fn)
     /\ AllValues(fn, last.rows)) =>
        /\ pr.count = Len(last.rows)
        /\ DecEq(pr.sum, ExactDecimal(fn, last.rows, DOMAIN last.rows))
        /\ \A f \in Perms(Len(last.rows)) :
              UpdatePartialResult(fn, last.pre, Permuted(last.rows, f)).p = pr

(***************************************************************************)
(* C4, amended: the non-null decimals folded without error leave the exact *)
(* sum and their number, the same in every order in which no DecimalAdd    *)
(* fails, and a final result that DecimalDiv yields is exact sum / count   *)
(* to DivFracIncr more fractional digits.                                  *)
(***************************************************************************)
C4_ExactAverage ==
    (fn = "avgOriginal4Decimal" /\ AllValues(fn, fed)) =>
        LET n == Len(fed)
            exact == ExactDecimal(fn, fed, DOMAIN fed)
        IN  /\ pr.count = n
            /\ pr.sum = exact
            /\ last.op = "update" =>
                  \A f \in Perms(n) :
                      LET r == UpdatePartialResult(fn, AllocPartialResult(fn), Permuted(fed, f))
                      IN  ~r.err => r.p = pr
            /\ (last.op = "append" /\ n > 0) =>
                  /\ last.err = (Abs(exact.v) >= Pow(10, MaxDigits - DivFracIncr) * n)
                  /\ ~last.err =>
                        /\ ~LastEntry.isNull
                        /\ LastEntry.val.f = exact.f + DivFracIncr
                        /\ Abs(exact.v * Pow(10, DivFracIncr) - LastEntry.val.v * n) < n

C4_Witness ==
    /\ fn = "avgOriginal4Decimal"
    /\ AllValues(fn, fed)
    /\ Len(fed) = 3
    /\ last.op = "append"
    /\ ~last.err
    /\ LastEntry.val = Dec(3333, 4)
    /\ \E f \in Perms(3) :
          UpdatePartialResult(fn, AllocPartialResult(fn), Permuted(fed, f)).err

(***************************************************************************)
(* C6, as claimed: the merge phase holds the sum of all partial sums and   *)
(* the sum of all partial counts, whatever the order of the pairs.         *)
(***************************************************************************)
\* the sum of the partial counts of the rows I among s[1..n]
RECURSIVE CountSum(_, _, _)
CountSum(s, I, n) ==
    IF n = 0 THEN 0 ELSE CountSum(s, I, n - 1) + (IF n \in I THEN s[n].arg0.val ELSE 0)

\* the exact sum of the float partial sums of the rows I among s[1..n]
RECURSIVE RealSum(_, _, _)
RealSum(s, I, n) ==
    IF n = 0 THEN 0 ELSE RealSum(s, I, n - 1) + (IF n \in I THEN s[n].arg1.val ELSE 0)

C6_AnyOrderExact ==
    fn \in PartialFns =>
        LET I == Contributing(fn, fed)
        IN  /\ pr.count = CountSum(fed, I, Len(fed))
            /\ fn \in DecimalFns => DecEq(pr.sum, ExactDecimal(fn, fed, I))
            /\ fn \in FloatFns => pr.sum = RealSum(fed, I, Len(fed))
            /\ \A f \in Perms(Len(fed)) :
                  UpdatePartialResult(fn, AllocPartialResult(fn), Permuted(fed, f)).p = pr

(***************************************************************************)
(* C6, amended: the count is the int64 sum of the partial counts (it wraps *)
(* around) in every order; the decimal sum is the exact sum of the partial *)
(* sums in every order in which no DecimalAdd fails; the float sum is the  *)
(* float64 sum from left to right, which is the exact sum, the same in     *)
(* every order, when no addition rounds; the final result is sum / count   *)
(* ((10,2) and (20,3) give 30, 5 and 6).                                   *)
(***************************************************************************)
\* no float64 addition of the partial sums of s rounds
NoRounding(s, I) == \A n \in 0..Len(s) : Float64(RealSum(s, I, n)) = RealSum(s, I, n)

C6_Example(sums) ==
    /\ Len(fed) = 2
    /\ fed[1] = PartialRow(Val(sums[1]), Val(2))
    /\ fed[2] = PartialRow(Val(sums[2]), Val(3))

C6_MergeTotals ==
    fn \in PartialFns =>
        LET n == Len(fed)
            I == Contributing(fn, fed)
            exact == NoRounding(fed, I)
            others == IF last.op = "update" THEN {Permuted(fed, f) : f \in Perms(n)} ELSE {}
        IN  /\ pr.count = Int64(CountSum(fed, I, n))
            /\ fn \in DecimalFns =>
                  /\ pr.sum = ExactDecimal(fn, fed, I)
                  /\ \A s \in others :
                        LET r == UpdatePartialResult(fn, AllocPartialResult(fn), s)
                        IN  ~r.err => r.p = pr
                  /\ C6_Example(<<Dec(10, 0), Dec(20, 0)>>) =>
                        /\ pr = [sum |-> Dec(30, 0), count |-> 5]
                        /\ last.op = "append" => (~last.err /\ LastEntry.val = Dec(60000, 4))
            /\ fn \in FloatFns =>
                  /\ pr.sum = FloatSum(fn, fed, I, n)
                  /\ exact => pr.sum = RealSum(fed, I, n)
                  /\ \A s \in others :
                        LET r == UpdatePartialResult(fn, AllocPartialResult(fn), s)
                        IN  /\ ~r.err
                            /\ r.p.count = pr.count
                            /\ (exact /\ NoRounding(s, Contributing(fn, s))) => r.p = pr
                  /\ (last.op = "append" /\ pr.count # 0) =>
                        /\ ~last.err
                        /\ Float64(pr.count) = pr.count =>
                              LastEntry.val = RoundFloat(pr.sum, pr.count)
                  /\ C6_Example(<<10, 20>>) =>
                        /\ pr = [sum |-> 30, count |-> 5]
                        /\ last.op = "append" => LastEntry.val = 6

C6_Witness ==
    /\ fn = "avgPartial4Float64"
    /\ C6_Example(<<10, 20>>)
    /\ last.op = "append"
    /\ LastEntry.val = 6

(***************************************************************************)
(* The two stages: the rows are partitioned into groups, the original      *)
(* phase folds each group into a partial result, and the merge phase folds *)
(* the pairs (sum, count) of the groups, in the order of the groups.       *)
(***************************************************************************)
\* the rows among s[1..n] that the partition g puts in group k
RECURSIVE GroupRows(_, _, _, _)
GroupRows(s, g, k, n) ==
    IF n = 0 THEN <<>>
    ELSE GroupRows(s, g, k, n - 1) \o (IF g[n] = k THEN <<s[n]>> ELSE <<>>)

\* the two stages on the rows s partitioned by g: the partial result of the merge
\* phase, and whether DecimalAdd failed in one of the two stages
TwoStages(s, g) ==
    LET first == [k \in 1..MaxGroups |->
                    UpdatePartialResult("avgOriginal4Decimal",
                                        AllocPartialResult("avgOriginal4Decimal"),
                                        GroupRows(s, g, k, Len(s)))]
        used == {k \in 1..MaxGroups : \E i \in DOMAIN s : g[i] = k}
        \* the pairs of the non-empty groups among 1..k, in the order of the groups
        pairs[k \in 0..MaxGroups] ==
            IF k = 0 THEN <<>>
            ELSE pairs[k - 1]
                 \o (IF k \in used
                     THEN <<PartialRow(Val(first[k].p.sum), Val(first[k].p.count))>>
                     ELSE <<>>)
        second == UpdatePartialResult("avgPartial4Decimal",
                                      AllocPartialResult("avgPartial4Decimal"),
                                      pairs[MaxGroups])
    IN  [p |-> second.p, err |-> second.err \/ \E k \in used : first[k].err]

\* the ways to put the rows of s into groups, the groups in every order
Partitions(s) == [DOMAIN s -> 1..MaxGroups]

(***************************************************************************)
(* C1, as claimed: for any non-null decimals and any partition, the two    *)
(* stages end with the sum, count and final result of avgOriginal4Decimal  *)
(* on all the rows.                                                        *)
(***************************************************************************)
C1_Mergeable ==
    (fn = "avgOriginal4Decimal" /\ last.op = "update" /\ AllValues(fn, fed)) =>
        \A g \in Partitions(fed) :
            LET merged == TwoStages(fed, g)
            IN  /\ ~merged.err
                /\ merged.p = pr

(***************************************************************************)
(* C1, amended: for any non-null decimals that avgOriginal4Decimal folds   *)
(* without error and any partition on which no DecimalAdd of the two       *)
(* stages fails, the two stages end with the same sum, count and final     *)
(* result as avgOriginal4Decimal on all the rows.                          *)
(***************************************************************************)
C1_MergeableWithoutError ==
    (fn = "avgOriginal4Decimal" /\ last.op = "update" /\ AllValues(fn, fed)) =>
        \A g \in Partitions(fed) :
            LET merged == TwoStages(fed, g)
            IN  ~merged.err =>
                    /\ merged.p.sum = pr.sum
                    /\ merged.p.count = pr.count
                    /\ AppendFinalResult2Chunk("avgPartial4Decimal", merged.p, chk)
                           = AppendFinalResult2Chunk(fn, pr, chk)

C1_Witness ==
    /\ fn = "avgOriginal4Decimal"
    /\ last.op = "update"
    /\ AllValues(fn, fed)
    /\ Len(fed) = 3
    /\ pr.count = 3
    /\ \E g \in Partitions(fed) :
          /\ \A k \in 1..MaxGroups : \E i \in DOMAIN fed : g[i] = k
          /\ ~TwoStages(fed, g).err
          /\ TwoStages(fed, g).p = pr
    /\ \E g \in Partitions(fed) : TwoStages(fed, g).err

(***************************************************************************)
(* C11: a call of AppendFinalResult2Chunk changes nothing but the output   *)
(* column of the aggregate.  Without error it appends one entry there, a   *)
(* null when count = 0 and sum / count otherwise, and leaves sum, count    *)
(* and the set of the partial result as they were; when DecimalDiv fails   *)
(* it returns the error and appends nothing; the float functions return no *)
(* error.                                                                  *)
(***************************************************************************)
\* the entry e is the average of the partial result pr
C11_Average(e) ==
    IF pr.count = 0 THEN e.isNull
    ELSE /\ ~e.isNull
         /\ IF fn \in DecimalFns
            THEN /\ e.val.f = pr.sum.f + DivFracIncr
                 /\ Abs(pr.sum.v * Pow(10, DivFracIncr) - e.val.v * pr.count) < Abs(pr.count)
            ELSE e.val = FloatDiv(pr.sum, Float64(pr.count))

C11_FinalizeOneWrite ==
    [][last'.op = "append" =>
          LET n == Len(chk[ordinal])
          IN  /\ pr' = pr
              /\ fn' = fn
              /\ fed' = fed
              /\ wvars' = wvars
              /\ \A c \in Columns \ {ordinal} : chk'[c] = chk[c]
              /\ fn \in FloatFns => ~last'.err
              /\ last'.err = (/\ fn \in DecimalFns
                              /\ pr.count # 0
                              /\ DecimalDiv(pr.sum, NewDecFromInt(pr.count), DivFracIncr).err)
              /\ IF last'.err THEN chk' = chk
                 ELSE /\ Len(chk'[ordinal]) = n + 1
                      /\ SubSeq(chk'[ordinal], 1, n) = chk[ordinal]
                      /\ C11_Average(chk'[ordinal][n + 1])]_vars

C11_Witness ==
    /\ fn = "avgOriginal4DistinctDecimal"
    /\ last.op = "append"
    /\ last.err
    /\ pr.count = 2
    /\ Cardinality(pr.valSet) = 2
    /\ chk = EmptyChunk

(***************************************************************************)
(* Several workers on one aggregate function.  Every worker allocates a    *)
(* partial result of its own and passes its batches to                     *)
(* UpdatePartialResult; the calls of the workers interleave row by row.    *)
(* A partial result is a struct of the worker; the set of a distinct       *)
(* function is a map, held by reference: acc[w].valSet is its place in     *)
(* sets.                                                                   *)
(***************************************************************************)
Workers == {"w1", "w2"}

\* the rows the workers pass: two values and a failing evaluation
WorkerRows(f) ==
    CASE f \in {"avgOriginal4Decimal", "avgOriginal4DistinctDecimal"} ->
            {[arg0 |-> Val(Dec(1, 0))], [arg0 |-> Val(Dec(2, 0))], [arg0 |-> Fail(ZeroDecimal)]}
      [] f \in {"avgOriginal4Float64", "avgOriginal4DistinctFloat64"} ->
            {[arg0 |-> Val(1)], [arg0 |-> Val(2)], [arg0 |-> Fail(0)]}
      [] f = "avgPartial4Decimal" ->
            {PartialRow(Val(Dec(10, 0)), Val(2)), PartialRow(Val(Dec(20, 0)), Val(3)),
             PartialRow(Val(Dec(10, 0)), Fail(0))}
      [] f = "avgPartial4Float64" ->
            {PartialRow(Val(10), Val(2)), PartialRow(Val(20), Val(3)),
             PartialRow(Val(10), Fail(0))}

\* newDecimalSet() / newFloat64Set() make a map that did not exist before
NewSetAddress(h) == Len(h) + 1

\* the sets once an empty set is made at the place a
WithNewSet(h, a) == [x \in 1..Max(Len(h), a) |-> IF x = a THEN {} ELSE h[x]]

\* a faulty variant: the set is one map of the function, shared by its partial results
AllocPartialResultOnHeap_SharedSet(f, h) ==
    IF f \in DistinctFns
    THEN [p |-> [AllocPartialResult(f) EXCEPT !.valSet = 1],
          sets |-> IF h = <<>> THEN <<{}>> ELSE h]
    ELSE [p |-> AllocPartialResult(f), sets |-> h]

\* AllocPartialResult with the sets h allocated so far: the partial result, its set
\* a new one, and the sets after the call
AllocPartialResultOnHeap(f, h) ==
    IF f \in DistinctFns
    THEN LET a == NewSetAddress(h)
         IN  [p |-> [AllocPartialResult(f) EXCEPT !.valSet = a], sets |-> WithNewSet(h, a)]
    ELSE [p |-> AllocPartialResult(f), sets |-> h]

\* the partial result of a worker that has not allocated one
NoPartialResult(f) ==
    IF f \in DistinctFns THEN [AllocPartialResult(f) EXCEPT !.valSet = 0]
    ELSE AllocPartialResult(f)

\* the partial result of worker w with the set it refers to
WorkerLoad(w) ==
    IF fn \in DistinctFns THEN [acc[w] EXCEPT !.valSet = sets[acc[w].valSet]] ELSE acc[w]

\* the rows worker w has passed in its calls
RowsPassed(w) ==
    LET n[k \in 0..Len(calls[w])] == IF k = 0 THEN 0 ELSE n[k - 1] + Len(calls[w][k])
    IN  n[Len(calls[w])]

InitWorkers ==
    /\ fn \in DecimalFns \cup FloatFns
    /\ pr = AllocPartialResult(fn)
    /\ chk = EmptyChunk
    /\ fed = <<>>
    /\ last = Call("alloc", <<>>, 0, FALSE, AllocPartialResult(fn))
    /\ acc = [w \in Workers |-> NoPartialResult(fn)]
    /\ sets = <<>>
    /\ run = [w \in Workers |-> [pc |-> "new", rows |-> <<>>, i |-> 0]]
    /\ calls = [w \in Workers |-> <<>>]

\* worker w calls AllocPartialResult
WorkerAlloc(w) ==
    /\ run[w].pc = "new"
    /\ LET r == AllocPartialResultOnHeap(fn, sets)
       IN  /\ acc' = [acc EXCEPT ![w] = r.p]
           /\ sets' = r.sets
    /\ run' = [run EXCEPT ![w].pc = "idle"]
    /\ UNCHANGED <<fn, pr, chk, fed, last, calls>>

\* worker w calls UpdatePartialResult with a batch: the loop is entered
WorkerUpdate(w) ==
    /\ run[w].pc = "idle"
    /\ \E rows \in Batches(WorkerRows(fn), MaxBatch - RowsPassed(w)) \ {<<>>} :
          /\ run' = [run EXCEPT ![w] = [pc |-> "loop", rows |-> rows, i |-> 1]]
          /\ calls' = [calls EXCEPT ![w] = Append(@, rows)]
    /\ UNCHANGED <<fn, pr, chk, fed, last, acc, sets>>

\* one turn of the loop of worker w: the row is folded into the partial result
\* of w; the call returns on an error, and after the last row
WorkerRow(w) ==
    /\ run[w].pc = "loop"
    /\ LET r == RowStep(fn, WorkerLoad(w), run[w].rows[run[w].i])
       IN  /\ IF fn \in DistinctFns
              THEN /\ acc' = [acc EXCEPT ![w] = [r.p EXCEPT !.valSet = acc[w].valSet]]
                   /\ sets' = [sets EXCEPT ![acc[w].valSet] = r.p.valSet]
              ELSE /\ acc' = [acc EXCEPT ![w] = r.p]
                   /\ sets' = sets
           /\ run' = [run EXCEPT ![w] =
                         IF r.err THEN [pc |-> "failed", rows |-> <<>>, i |-> 0]
                         ELSE IF @.i = Len(@.rows) THEN [pc |-> "idle", rows |-> <<>>, i |-> 0]
                         ELSE [@ EXCEPT !.i = @ + 1]]
    /\ UNCHANGED <<fn, pr, chk, fed, last, calls>>

NextWorkers ==
    \/ \E w \in Workers : WorkerAlloc(w)
    \/ \E w \in Workers : WorkerUpdate(w)
    \/ \E w \in Workers : WorkerRow(w)

SpecWorkers == InitWorkers /\ [][NextWorkers]_vars

(***************************************************************************)
(* C12: with several workers on one aggregate function, each on a partial  *)
(* result of its own, whatever the interleaving of their calls the partial *)
(* result of every worker is what its own calls, run alone one after the   *)
(* other, leave: no call of another worker changes its sum, its count or   *)
(* its set; and the sets of two allocations are two sets.                  *)
(***************************************************************************)
\* the first n of the calls cs run to completion one after the other on p, up to
\* the first that returns an error
RECURSIVE C12_Alone(_, _, _, _)
C12_Alone(f, p, cs, n) ==
    IF n = 0 THEN [p |-> p, err |-> FALSE]
    ELSE LET before == C12_Alone(f, p, cs, n - 1)
             r == UpdatePartialResult(f, before.p, cs[n])
         IN  IF before.err THEN before ELSE [p |-> r.p, err |-> r.err]

C12_AccumulatorsIsolated ==
    /\ \A w \in Workers :
          LET n == Len(calls[w])
              fresh == AllocPartialResult(fn)
          IN  /\ run[w].pc \in {"idle", "failed"} =>
                    LET alone == C12_Alone(fn, fresh, calls[w], n)
                    IN  /\ WorkerLoad(w) = alone.p
                        /\ alone.err = (run[w].pc = "failed")
              /\ run[w].pc = "loop" =>
                    LET before == C12_Alone(fn, fresh, calls[w], n - 1)
                        r == UpdatePartialResult(fn, before.p,
                                                 SubSeq(run[w].rows, 1, run[w].i - 1))
                    IN  /\ run[w].rows = calls[w][n]
                        /\ ~before.err
                        /\ ~r.err
                        /\ WorkerLoad(w) = r.p
    /\ fn \in DistinctFns =>
          \A v, w \in Workers :
              (v # w /\ run[v].pc # "new" /\ run[w].pc # "new") =>
                  acc[v].valSet # acc[w].valSet

C12_Witness ==
    /\ fn = "avgOriginal4DistinctDecimal"
    /\ run["w1"].pc = "loop"
    /\ run["w1"].i = 2
    /\ acc["w1"].count = 1
    /\ run["w2"].pc = "failed"
    /\ acc["w2"].count = 1
    /\ WorkerLoad("w1").valSet = WorkerLoad("w2").valSet
    /\ acc["w1"].valSet # acc["w2"].valSet

(***************************************************************************)
(* C13, as claimed: for every function, once a row that is not null (in    *)
(* the merge phase: a pair whose sum and count are not null) is folded,    *)
(* count is positive and stays so, and AppendFinalResult2Chunk writes a    *)
(* value that is not null.                                                 *)
(***************************************************************************)
C13_NullIffNothingFolded ==
    LET folded == \E i \in DOMAIN fed : ~IsNullRow(fn, fed[i])
    IN  /\ folded <=> pr.count > 0
        /\ last.op = "append" =>
              /\ ~last.err
              /\ LastEntry.isNull <=> ~folded

(***************************************************************************)
(* C13, amended: the null is written if and only if count = 0.  In the     *)
(* original phase count is positive once a row that is not null is folded  *)
(* and no later update lowers it; in the merge phase count is the int64    *)
(* sum of the partial counts folded, positive when these are positive and  *)
(* their sum does not overflow, and zero (a null is written) when they are *)
(* all zero.  With count # 0 a float function writes a value, and a        *)
(* decimal function writes a value or returns the error of DecimalDiv.     *)
(***************************************************************************)
C13_NullIffCountZero ==
    LET I == {i \in DOMAIN fed : ~IsNullRow(fn, fed[i])}
        total == CountSum(fed, I, Len(fed))
    IN  /\ last.op = "append" =>
              /\ last.err => (fn \in DecimalFns /\ pr.count # 0 /\ chk = EmptyChunk)
              /\ ~last.err => (LastEntry.isNull <=> pr.count = 0)
        /\ fn \in OriginalFns =>
              /\ pr.count > 0 <=> I # {}
              /\ pr.count >= 0
              /\ last.op = "update" => pr.count >= last.pre.count
        /\ fn \in PartialFns =>
              /\ ((\A i \in I : fed[i].arg0.val > 0) /\ total <= MaxInt64) =>
                    (pr.count > 0 <=> I # {})
              /\ (\A i \in I : fed[i].arg0.val = 0) => pr.count = 0

C13_Witness ==
    /\ fn = "avgPartial4Decimal"
    /\ Len(fed) = 2
    /\ fed[1] = PartialRow(Val(ZeroDecimal), Val(0))
    /\ last.op = "append"
    /\ last.pre.count = 2
    /\ ~last.err
    /\ ~LastEntry.isNull

(***************************************************************************)
(* C14: rows folded without error leave the same sum, count and set        *)
(* whether they are passed in one UpdatePartialResult call or cut at any   *)
(* places into consecutive calls on the same partial result; a distinct    *)
(* function does not count again a value of an earlier call.               *)
(***************************************************************************)
\* the rows s[from..] passed to p in consecutive calls, a call ending at every
\* place of cuts and at the end of s
RECURSIVE C14_InCalls(_, _, _, _, _)
C14_InCalls(f, p, s, cuts, from) ==
    IF from > Len(s) THEN [p |-> p, err |-> FALSE]
    ELSE LET ends == {c \in cuts \cup {Len(s)} : c >= from}
             to == CHOOSE c \in ends : \A d \in ends : c <= d
             r == UpdatePartialResult(f, p, SubSeq(s, from, to))
         IN  IF r.err THEN [p |-> r.p, err |-> TRUE]
             ELSE C14_InCalls(f, r.p, s, cuts, to + 1)

C14_BatchSplitInvariance ==
    LET fresh == AllocPartialResult(fn)
        one == UpdatePartialResult(fn, fresh, fed)
    IN  /\ ~one.err
        /\ one.p = pr
        /\ last.op = "update" =>
              \A cuts \in SUBSET (1..(Len(fed) - 1)) :
                  LET r == C14_InCalls(fn, fresh, fed, cuts, 1)
                  IN  ~r.err /\ r.p = pr
        /\ (last.op = "update" /\ ~last.err) =>
              pr = UpdatePartialResult(fn, last.pre, last.rows).p

C14_Witness ==
    /\ fn = "avgOriginal4DistinctFloat64"
    /\ Len(fed) = 3
    /\ last.op = "update"
    /\ ~last.err
    /\ Len(last.rows) = 2
    /\ ~IsNullRow(fn, fed[1])
    /\ fed[3] = fed[1]
    /\ fed[2] # fed[1]
    /\ ~IsNullRow(fn, fed[2])
    /\ pr.count = 2

(***************************************************************************)
(* C15: in every state of a distinct partial result (after every row,      *)
(* after a failed update, after a reset) the set holds exactly the values  *)
(* added to sum: count is the number of its members, sum is the sum of its *)
(* members (for floats the float64 sum in the order they were inserted),   *)
(* and neither a null, nor a value whose evaluation failed, nor a value    *)
(* whose DecimalAdd failed is a member.                                    *)
(***************************************************************************)
\* the float64 sums the members of S can give, added in any order
RECURSIVE C15_FloatSums(_)
C15_FloatSums(S) ==
    IF S = {} THEN {0}
    ELSE {FloatAdd(t, x) : <<t, x>> \in UNION {C15_FloatSums(S \ {y}) \X {y} : y \in S}}

C15_SetIsWhatWasSummed ==
    fn \in DistinctFns =>
        LET I == Contributing(fn, fed)
            F == ScaleOf(fn, fed, I)
        IN  /\ pr.valSet = {fed[i].arg0.val : i \in I}
            /\ pr.count = Cardinality(pr.valSet)
            /\ fn \in DecimalFns =>
                  /\ pr.sum.f = F
                  /\ pr.sum.v = SetSum({m.v * Pow(10, F - m.f) : m \in pr.valSet})
                  /\ \A m \in pr.valSet : m.v # 0
            /\ fn \in FloatFns =>
                  /\ pr.sum = FloatSum(fn, fed, I, Len(fed))
                  /\ pr.sum \in C15_FloatSums(pr.valSet)
                  /\ 0 \notin pr.valSet
            /\ (last.op = "update" /\ last.err) =>
                  LET row == last.rows[last.k + 1]
                  IN  \/ row.arg0.err /\ pr.valSet = UpdatePartialResult(fn, last.pre, SubSeq(last.rows, 1, last.k)).p.valSet
                      \/ /\ ~row.arg0.err
                         /\ ~row.arg0.isNull
                         /\ \A m \in pr.valSet : ~SameValue(fn, m, row.arg0.val)
            /\ last.op = "reset" => (pr.valSet = {} /\ pr.count = 0 /\ pr.sum = AllocPartialResult(fn).sum)

C15_Witness ==
    /\ fn = "avgOriginal4DistinctDecimal"
    /\ last.op = "update"
    /\ last.err
    /\ last.k = 1
    /\ ~last.rows[2].arg0.err
    /\ Cardinality(pr.valSet) = 2
    /\ Cardinality(last.pre.valSet) = 1
    /\ pr.count = 2

====
